---- MODULE Spec2Model ----
(***************************************************************************)
(* Particle swarm optimiser of Coursework/PSO/pswarm.py: the PSO object,   *)
(* its particles, and run() with its three sweeps per iteration (assess,   *)
(* update velocity, move), one step per particle of a sweep.               *)
(*                                                                         *)
(* Reals are modelled by integers: random.uniform(a, b) is any integer     *)
(* between a and b (in either order, as a + (b - a) * random() is), and    *)
(* the arithmetic of the code is carried out exactly on them.              *)
(* Particle.velocity_list (a diagnostic history) and                       *)
(* Particle.informat_fittest_loc (never read) are not modelled, nor is     *)
(* the progress bar.                                                       *)
(***************************************************************************)
EXTENDS Integers, Sequences, FiniteSets, TLC

VARIABLES
    conf,           \* the PSO object's configuration attributes
    particles,      \* self.particles: <<>> stands for None
    best,           \* self.best
    previous_best,  \* self.previous_best
    controller,     \* the TerminationPolicyManager of the current run()
    pc,             \* where run() is
    idx,            \* the particle the current sweep has reached
    err,            \* the exception run() ended with, "" when none
    runs,           \* run() invocations so far
    sweeps,         \* assess/update/move sweeps the current run() completed
    initial,        \* the particles as _instantiate_particles made them
    writes,         \* assignments to self.best in the current iteration
    record,         \* the fittest assessment of the current run(), the first
                    \* of them when several are equally fit; None before any
    offered         \* the arguments the caller passes to set_search_dimensions

vars == <<conf, particles, best, previous_best, controller, pc, idx, err, runs,
         sweeps, initial, writes, record, offered>>

----------------------------------------------------------------------------
(* Bounds of the model *)

MaxRuns == 2
MaxIter == 2

----------------------------------------------------------------------------
(* Values *)

RANDOMREINIT == "RANDOMREINIT"
REFUSE == "REFUSE"
BOUNCE == "BOUNCE"
BoundaryPolicy == {RANDOMREINIT, REFUSE, BOUNCE}

ITERATIONS == "ITERATIONS"
CONVERGENCE == "CONVERGENCE"
DURATION == "DURATION"
TerminationPolicy == {ITERATIONS, CONVERGENCE, DURATION}

\* FitnessLoc(location, fitness); isNone marks Python's None
FitnessLoc(location, fitness) ==
    [isNone |-> FALSE, location |-> location, fitness |-> fitness]

None == [isNone |-> TRUE, location |-> <<>>, fitness |-> 0]

\* FitnessLoc's order: by fitness only
FitnessLoc_gt(a, b) == a.fitness > b.fitness

FitnessLoc_lt(a, b) == a.fitness < b.fitness

RunSentinelFitness == -9999
InitSentinelFitness == -999999
InformantSentinelFitness == -999999

Min(a, b) == IF a <= b THEN a ELSE b
Max(a, b) == IF a >= b THEN a ELSE b

\* random.uniform(a, b): a + (b - a) * random.random()
Uniform(a, b) == Min(a, b) .. Max(a, b)

RECURSIVE SumSq(_)
SumSq(x) == IF x = <<>> THEN 0 ELSE Head(x) * Head(x) + SumSq(Tail(x))

\* The caller's fitness functions the model draws from
FitnessFns == {"negsq", "low"}

fitness_fn(fn, position) ==
    CASE fn = "negsq" -> 0 - SumSq(position)
      [] fn = "low"   -> RunSentinelFitness - SumSq(position)

----------------------------------------------------------------------------
(* Inputs the model draws from *)

DefaultBound == <<1, -1>>
DefaultTimeDelta == 4
Epsilons == {0, 1}

\* <<alpha, beta, gamma, delta>>: pure carry-over, and all four terms
Carry == <<1, 0, 0, 0>>
Full == <<1, 1, 1, 1>>
Coefficients == {Carry, Full}

\* Arguments of set_search_dimensions: an int, or a list of (low, high)
DimensionArgs == {[int |-> TRUE, n |-> 1, list |-> <<>>],
                  [int |-> FALSE, n |-> 0, list |-> << <<-1, 1>> >>]}

\* A list argument of two dimensions
PlaneArgs == {[int |-> FALSE, n |-> 0, list |-> << <<-1, 1>>, <<0, 1>> >>]}

\* PSO.__init__
Construct(swarm_size, num_informants, coefficients, epsilon, boundary_policy, max_iter, num_runs) ==
    [swarm_size |-> swarm_size,
     boundary |-> DefaultBound,
     alpha |-> coefficients[1],
     beta |-> coefficients[2],
     gamma |-> coefficients[3],
     delta |-> coefficients[4],
     epsilon |-> epsilon,
     boundary_policy |-> boundary_policy,
     max_iter |-> max_iter,
     search_dimension |-> <<>>,
     search_dimension_set |-> FALSE,
     num_informants |-> num_informants,
     fitness_fn |-> "None",
     num_runs |-> num_runs,
     termination_policy |-> {ITERATIONS},
     time_delta |-> DefaultTimeDelta,
     min_fitness_delta |-> 0]

\* Two particles, one run() of up to MaxIter iterations, every policy; the
\* particles stand still (epsilon 0) under the Carry coefficients only
Small ==
    UNION {{Construct(2, 1, co, e, bp, n, 1) :
                e \in (IF co = Carry THEN Epsilons ELSE {1}),
                bp \in BoundaryPolicy, n \in 1..MaxIter} :
           co \in Coefficients}

\* Two particles, up to MaxRuns run() calls of one iteration each
Repeat ==
    {Construct(2, 1, co, 1, bp, 1, r) :
        co \in Coefficients, bp \in BoundaryPolicy, r \in 1..MaxRuns}

\* Three particles with one or two informants each, one iteration
Wide ==
    {Construct(3, k, Carry, 1, bp, 1, 1) :
        k \in 1..2, bp \in BoundaryPolicy}

\* Two particles in two dimensions, one iteration, every policy
Plane ==
    {Construct(2, 1, Carry, 1, bp, 1, 1) : bp \in BoundaryPolicy}

\* Two particles under REFUSE, every termination_policy and two
\* min_fitness_delta
Policies ==
    {[Construct(2, 1, co, 1, REFUSE, n, 1) EXCEPT
          !.termination_policy = tp, !.min_fitness_delta = m, !.time_delta = t] :
        co \in Coefficients, n \in 1..MaxIter,
        tp \in SUBSET TerminationPolicy, m \in {0, 2}, t \in {1, DefaultTimeDelta}}

\* TerminationPolicyManager(policy, max_iter=..., time_delta=...,
\* min_fitness_delta=...); policy is the set of policies that drive it
TerminationPolicyManager(policy, max_iter, time_delta, min_fitness_delta) ==
    [policy |-> policy,
     current_iter |-> 0,
     max_iter |-> max_iter,
     time_delta |-> time_delta,
     min_fitness_delta |-> min_fitness_delta,
     terminate |-> FALSE]

\* TerminationPolicyManager.next_iteration: the iteration count decides under
\* ITERATIONS; the fitness delta under CONVERGENCE and the time spent (one
\* unit an iteration) under DURATION are what those policies are meant for
next_iteration(c, fitness_delta) ==
    [c EXCEPT !.current_iter = c.current_iter + 1,
              !.terminate =
                  \/ ITERATIONS \in c.policy /\ c.current_iter + 1 >= c.max_iter
                  \/ CONVERGENCE \in c.policy /\ fitness_delta < c.min_fitness_delta
                  \/ DURATION \in c.policy /\ c.current_iter + 1 >= c.time_delta]

InitWith(constructions, arguments) ==
    /\ conf \in constructions
    /\ offered = arguments
    /\ particles = <<>>
    /\ best = None
    /\ previous_best = FitnessLoc(<<>>, InitSentinelFitness)
    /\ controller = TerminationPolicyManager({ITERATIONS}, 0, 0, 0)
    /\ pc = "idle"
    /\ idx = 0
    /\ err = ""
    /\ runs = 0
    /\ sweeps = 0
    /\ initial = <<>>
    /\ writes = 0
    /\ record = None

\* the state after construction, for a caller with the one-dimensional arguments
InitOf(constructions) == InitWith(constructions, DimensionArgs)

----------------------------------------------------------------------------
(* Configuration calls *)

\* The caller configures the optimiser before its first swarm exists
Configuring == pc \in {"idle", "raised"} /\ particles = <<>>

\* PSO.set_fitness_fn
set_fitness_fn(f) ==
    /\ Configuring
    /\ conf' = [conf EXCEPT !.fitness_fn = f]
    /\ UNCHANGED <<particles, best, previous_best, controller, pc, idx, err,
                   runs, sweeps, initial, writes, record, offered>>

\* the list an int argument expands to
ExpandDimensions(n, bound) == [i \in 1..n |-> bound]

\* PSO.set_search_dimensions, for an int or a list argument
set_search_dimensions(arg) ==
    /\ Configuring
    /\ conf' = [conf EXCEPT
                  !.search_dimension =
                      IF arg.int THEN ExpandDimensions(arg.n, conf.boundary)
                                 ELSE arg.list,
                  !.search_dimension_set = TRUE]
    /\ UNCHANGED <<particles, best, previous_best, controller, pc, idx, err,
                   runs, sweeps, initial, writes, record, offered>>

\* PSO.set_search_dimensions, for an argument that is neither: it raises
\* ValueError to its caller, which has a run() call still to make
set_search_dimensions_invalid ==
    /\ pc \in {"idle", "returned", "raised"}
    /\ runs < conf.num_runs
    /\ conf' = [conf EXCEPT !.search_dimension_set = FALSE]
    /\ UNCHANGED <<particles, best, previous_best, controller, pc, idx, err,
                   runs, sweeps, initial, writes, record, offered>>

----------------------------------------------------------------------------
(* Particles *)

\* the sequences t with t[i] \in sets[i]
Product(sets) ==
    {t \in [1..Len(sets) -> UNION {sets[i] : i \in 1..Len(sets)}] :
        \A i \in 1..Len(sets) : t[i] \in sets[i]}

\* Particle.__init__
Particle(position, velocity) ==
    [position |-> position,
     velocity |-> velocity,
     fitness_loc |-> None,
     personal_fittest_loc |-> None,
     informants |-> <<>>]

\* PSO._init_position
InitPosition(search_dimension) ==
    Product([i \in 1..Len(search_dimension) |->
                Uniform(search_dimension[i][1], search_dimension[i][2])])

\* PSO._init_velocity
InitVelocity(search_dimension) ==
    Product([i \in 1..Len(search_dimension) |->
                Uniform(search_dimension[i][1], search_dimension[i][2])])

\* as NoSelf, with nothing deleted
NoSelfKept(swarm_size, p) == 1..swarm_size

\* np.delete(particles, np.where(particles == particle)): the others, by index
NoSelf(swarm_size, p) == {q \in 1..swarm_size : q # p}

\* np.random.choice(pool, k, replace=False): k distinct members, in any order
Choice(pool, k) ==
    {t \in [1..k -> pool] : \A i, j \in 1..k : i # j => t[i] # t[j]}

\* PSO._init_informants: the wirings of a swarm
InitInformants(swarm_size, k) ==
    {w \in [1..swarm_size -> UNION {Choice(NoSelf(swarm_size, p), k) :
                                       p \in 1..swarm_size}] :
        \A p \in 1..swarm_size : w[p] \in Choice(NoSelf(swarm_size, p), k)}

\* as update_position, with the velocity set to zero as well
update_position_and_halt(particle, new_position) ==
    [particle EXCEPT !.position = new_position,
                     !.velocity = [i \in 1..Len(particle.velocity) |-> 0]]

\* Particle.update_position
update_position(particle, new_position) ==
    [particle EXCEPT !.position = new_position]

\* Particle.update_velocity
update_velocity(particle, new_velocity) ==
    [particle EXCEPT !.velocity = new_velocity]

\* Particle.set_informants
set_informants(particle, informants) ==
    [particle EXCEPT !.informants = informants]

\* as Frozen, with no particle ever skipped
FrozenNever(particle) == FALSE

\* not any(particle.velocity != 0)
Frozen(particle) ==
    ~ \E i \in 1..Len(particle.velocity) : particle.velocity[i] # 0

\* as PersonalImproves, with >= for >
PersonalImprovesOnTie(fitness_loc, personal) ==
    fitness_loc.fitness >= personal.fitness

\* Particle.assess_fitness, line 346: the personal best is replaced
PersonalImproves(fitness_loc, personal) == FitnessLoc_gt(fitness_loc, personal)

\* Particle.assess_fitness
assess_fitness(particle) ==
    LET fitness_loc == FitnessLoc(particle.position,
                                  fitness_fn(conf.fitness_fn, particle.position))
        first == IF particle.personal_fittest_loc.isNone
                 THEN fitness_loc ELSE particle.personal_fittest_loc
    IN [particle EXCEPT
          !.fitness_loc = fitness_loc,
          !.personal_fittest_loc =
              IF PersonalImproves(fitness_loc, first) THEN fitness_loc ELSE first]

----------------------------------------------------------------------------
(* run() *)

\* as PhaseAfter, with the particles moved before the velocities are updated
PhaseAfterMoveFirst(phase) ==
    CASE phase = "_pso_assess_fitness" -> "_move_particles"
      [] phase = "_move_particles"     -> "_update_particle"
      [] phase = "_update_particle"    -> "next_iteration"

\* the order of the three sweeps in the loop body, and what follows them
PhaseAfter(phase) ==
    CASE phase = "_pso_assess_fitness" -> "_update_particle"
      [] phase = "_update_particle"    -> "_move_particles"
      [] phase = "_move_particles"     -> "next_iteration"

\* as LoopContinues, with the test one iteration late
LoopContinuesOneMore(c) == c.current_iter <= c.max_iter

\* while not controller.terminate
LoopContinues(c) == ~ c.terminate

\* for particle in self.particles: the next particle, or the next phase
Advance ==
    IF idx < Len(particles)
    THEN /\ idx' = idx + 1
         /\ pc' = pc
         /\ sweeps' = sweeps
    ELSE /\ idx' = 1
         /\ pc' = PhaseAfter(pc)
         /\ sweeps' = IF pc = "_move_particles" THEN sweeps + 1 ELSE sweeps

\* as Unconfigured, without the test of search_dimension_set
UnconfiguredFitnessOnly == conf.fitness_fn = "None"

\* run(), line 100, and _instantiate_particles, line 206: what makes run() raise
Unconfigured == ~ conf.search_dimension_set \/ conf.fitness_fn = "None"

\* as ControllerPolicy, with the configured termination_policy passed on
ControllerPolicyConfigured == conf.termination_policy

\* run(), line 105: the policy the controller is built with
ControllerPolicy == {ITERATIONS}

\* run() up to the loop: the checks, _instantiate_particles, the reset of best
Run ==
    /\ pc \in {"idle", "returned", "raised"}
    /\ runs < conf.num_runs
    /\ runs' = runs + 1
    /\ IF Unconfigured
       THEN /\ pc' = "raised"
            /\ err' = "ValueError"
            /\ UNCHANGED <<conf, particles, best, previous_best, controller,
                           idx, sweeps, initial, writes, record, offered>>
       ELSE /\ \E position \in [1..conf.swarm_size -> InitPosition(conf.search_dimension)],
                  velocity \in [1..conf.swarm_size -> InitVelocity(conf.search_dimension)],
                  wiring \in InitInformants(conf.swarm_size, conf.num_informants) :
                    particles' = [p \in 1..conf.swarm_size |->
                                    set_informants(Particle(position[p], velocity[p]),
                                                   wiring[p])]
            /\ initial' = particles'
            /\ best' = FitnessLoc(<<>>, RunSentinelFitness)
            /\ controller' = TerminationPolicyManager(ControllerPolicy, conf.max_iter,
                                                      conf.time_delta,
                                                      conf.min_fitness_delta)
            /\ pc' = IF LoopContinues(controller')
                     THEN "_pso_assess_fitness" ELSE "returned"
            /\ idx' = 1
            /\ err' = ""
            /\ sweeps' = 0
            /\ writes' = 0
            /\ record' = None
            /\ UNCHANGED <<conf, previous_best, offered>>

\* as SwarmImproves, with >= for >
SwarmImprovesOnTie(fitness, swarm_best) ==
    swarm_best.isNone \/ ~ FitnessLoc_lt(fitness, swarm_best)

\* as SwarmImproves, with < for >
SwarmImprovesReversed(fitness, swarm_best) ==
    swarm_best.isNone \/ FitnessLoc_lt(fitness, swarm_best)

\* _pso_assess_fitness, line 149: the swarm's best is replaced
SwarmImproves(fitness, swarm_best) ==
    swarm_best.isNone \/ FitnessLoc_gt(fitness, swarm_best)

\* _pso_assess_fitness: one particle of the loop
AssessParticle ==
    /\ pc = "_pso_assess_fitness"
    /\ IF Frozen(particles[idx])
       THEN UNCHANGED <<particles, best, previous_best, writes, record>>
       ELSE LET assessed == assess_fitness(particles[idx])
                fitness == assessed.fitness_loc
            IN /\ particles' = [particles EXCEPT ![idx] = assessed]
               /\ IF SwarmImproves(fitness, best)
                  THEN /\ previous_best' = best
                       /\ best' = fitness
                       /\ writes' = writes + 1
                  ELSE UNCHANGED <<best, previous_best, writes>>
               /\ record' = IF record.isNone \/ fitness.fitness > record.fitness
                            THEN fitness ELSE record
    /\ Advance
    /\ UNCHANGED <<conf, controller, err, runs, initial, offered>>

\* as ScanInformants, with an informant of equal fitness replacing the one kept
RECURSIVE ScanInformantsKeepLast(_, _, _)
ScanInformantsKeepLast(fittest, informants, i) ==
    IF i > Len(informants) THEN fittest
    ELSE LET fitness_loc == particles[informants[i]].fitness_loc
         IN ScanInformantsKeepLast(IF ~ FitnessLoc_gt(fittest, fitness_loc)
                                   THEN fitness_loc ELSE fittest,
                                   informants, i + 1)

\* _update_particle, lines 163-166: the linear scan for the fittest informant
RECURSIVE ScanInformants(_, _, _)
ScanInformants(fittest, informants, i) ==
    IF i > Len(informants) THEN fittest
    ELSE LET fitness_loc == particles[informants[i]].fitness_loc
         IN ScanInformants(IF FitnessLoc_lt(fittest, fitness_loc)
                           THEN fitness_loc ELSE fittest,
                           informants, i + 1)

FittestInformant(particle) ==
    ScanInformants(FitnessLoc(<<>>, InformantSentinelFitness),
                   particle.informants, 1)

\* as NewVelocity, without the alpha * velocity[i] term
NewVelocityNoInertia(particle, personal, informant, swarm_best, i) ==
    {b * (personal.location[i] - particle.position[i])
        + c * (informant.location[i] - particle.position[i])
        + d * (swarm_best.location[i] - particle.position[i]) :
        b \in Uniform(0, conf.beta),
        c \in Uniform(0, conf.gamma),
        d \in Uniform(0, conf.delta)}

\* _update_particle, line 174: the values velocity[i] can take
NewVelocity(particle, personal, informant, swarm_best, i) ==
    {conf.alpha * particle.velocity[i]
        + b * (personal.location[i] - particle.position[i])
        + c * (informant.location[i] - particle.position[i])
        + d * (swarm_best.location[i] - particle.position[i]) :
        b \in Uniform(0, conf.beta),
        c \in Uniform(0, conf.gamma),
        d \in Uniform(0, conf.delta)}

\* as Raise, with the candidate position already written to the particle
RaiseAfterWrite(exception) ==
    /\ pc' = "raised"
    /\ err' = exception
    /\ particles' = [particles EXCEPT ![idx].position =
                        [i \in 1..Len(particles[idx].position) |->
                            particles[idx].position[i]
                                + conf.epsilon * particles[idx].velocity[i]]]
    /\ UNCHANGED <<conf, best, previous_best, controller, idx, runs, sweeps,
                   initial, writes, record, offered>>

\* raise: run() ends with an exception, nothing else is touched
Raise(exception) ==
    /\ pc' = "raised"
    /\ err' = exception
    /\ UNCHANGED <<conf, particles, best, previous_best, controller, idx,
                   runs, sweeps, initial, writes, record, offered>>

\* _update_particle: one particle of the loop
UpdateParticle ==
    /\ pc = "_update_particle"
    /\ LET particle == particles[idx]
           D == Len(conf.search_dimension)
       IN IF Frozen(particle)
          THEN /\ Advance
               /\ UNCHANGED <<conf, particles, best, previous_best, controller,
                              err, runs, initial, writes, record, offered>>
          ELSE IF \E i \in 1..Len(particle.informants) :
                      particles[particle.informants[i]].fitness_loc.isNone
          THEN Raise("TypeError")  \* FitnessLoc < None
          ELSE LET personal == particle.personal_fittest_loc
                   informant == FittestInformant(particle)
               IN IF \/ Len(personal.location) < D
                     \/ Len(informant.location) < D
                     \/ Len(best.location) < D
                  THEN Raise("IndexError")  \* location[i] of an empty list
                  ELSE /\ \E velocity \in Product([i \in 1..D |->
                              NewVelocity(particle, personal, informant, best, i)]) :
                              particles' = [particles EXCEPT
                                              ![idx] = update_velocity(particle, velocity)]
                       /\ Advance
                       /\ UNCHANGED <<conf, best, previous_best, controller,
                                      err, runs, initial, writes, record, offered>>

\* _move_particles, line 187: d[0] <= temp_position[index] <= d[1]
InRange(d, x) == d[1] <= x /\ x <= d[2]

\* as ResolveDimension, with REFUSE keeping the out-of-range candidate
ResolveDimensionKeepCandidate(d, candidate, current) ==
    IF InRange(d, candidate) THEN {candidate}
    ELSE IF conf.boundary_policy = RANDOMREINIT THEN Uniform(d[1], d[2])
    ELSE {candidate}

\* _move_particles, lines 186-200: what temp_position[index] ends as
ResolveDimension(d, candidate, current) ==
    IF InRange(d, candidate) THEN {candidate}
    ELSE IF conf.boundary_policy = RANDOMREINIT THEN Uniform(d[1], d[2])
    ELSE IF conf.boundary_policy = REFUSE THEN {current}
    ELSE {candidate}

\* _move_particles, line 182
TempPosition(particle) ==
    [i \in 1..Len(particle.position) |->
        particle.position[i] + conf.epsilon * particle.velocity[i]]

\* _move_particles: one particle of the loop
MoveParticle ==
    /\ pc = "_move_particles"
    /\ LET particle == particles[idx]
           D == Len(conf.search_dimension)
           temp_position == TempPosition(particle)
       IN IF Frozen(particle)
          THEN /\ Advance
               /\ UNCHANGED <<conf, particles, best, previous_best, controller,
                              err, runs, initial, writes, record, offered>>
          ELSE IF /\ conf.boundary_policy = BOUNCE
                  /\ \E i \in 1..D : ~ InRange(conf.search_dimension[i], temp_position[i])
          THEN Raise("NotImplementedError")
          ELSE /\ \E position \in Product([i \in 1..D |->
                      ResolveDimension(conf.search_dimension[i], temp_position[i],
                                       particle.position[i])]) :
                      particles' = [particles EXCEPT
                                      ![idx] = update_position(particle, position)]
               /\ Advance
               /\ UNCHANGED <<conf, best, previous_best, controller, err, runs,
                              initial, writes, record, offered>>

\* the end of the loop body: controller.next_iteration, then the loop test
NextIteration ==
    /\ pc = "next_iteration"
    /\ LET fitness_delta == best.fitness - previous_best.fitness
       IN controller' = next_iteration(controller, fitness_delta)
    /\ pc' = IF LoopContinues(controller')
             THEN "_pso_assess_fitness" ELSE "returned"
    /\ idx' = 1
    /\ writes' = 0
    /\ UNCHANGED <<conf, particles, best, previous_best, err, runs, sweeps,
                   initial, record, offered>>

SetFitnessFn == \E f \in FitnessFns : set_fitness_fn(f)

SetSearchDimensions ==
    \/ \E arg \in offered : set_search_dimensions(arg)
    \/ set_search_dimensions_invalid

Next ==
    \/ SetFitnessFn
    \/ SetSearchDimensions
    \/ Run
    \/ AssessParticle
    \/ UpdateParticle
    \/ MoveParticle
    \/ NextIteration

Init == InitOf(Small)

Spec == Init /\ [][Next]_vars

InitPolicies == InitOf(Policies)

SpecPolicies == InitPolicies /\ [][Next]_vars

InitPlane == InitWith(Plane, PlaneArgs)

SpecPlane == InitPlane /\ [][Next]_vars

InitRepeat == InitOf(Repeat)

SpecRepeat == InitRepeat /\ [][Next]_vars

InitWide == InitOf(Wide)

SpecWide == InitWide /\ [][Next]_vars

----------------------------------------------------------------------------
(* Properties *)

Swarm == 1..Len(particles)

Dimensions == 1..Len(conf.search_dimension)

InLoop == pc \in {"_pso_assess_fitness", "_update_particle",
                  "_move_particles", "next_iteration"}

StepOfRun == AssessParticle \/ UpdateParticle \/ MoveParticle \/ NextIteration

\* C1: under RANDOMREINIT or REFUSE, once the move sweep of an iteration is
\* complete every particle's position[i] lies within [low_i, high_i] of the
\* search dimensions, those an int argument expands to included.
C1_PositionWithinBounds ==
    (conf.boundary_policy \in {RANDOMREINIT, REFUSE} /\ pc = "next_iteration")
        => \A p \in Swarm : \A i \in Dimensions :
               InRange(conf.search_dimension[i], particles[p].position[i])

\* C2: within one run() best.fitness never decreases, from one particle's
\* assessment to the next and from one iteration to the next.
C2_BestNonDecreasing ==
    [][(runs' = runs /\ ~ best.isNone) => best'.fitness >= best.fitness]_vars

C2_Witness ==
    /\ InLoop
    /\ previous_best.location # <<>>
    /\ best.fitness > previous_best.fitness

\* C3: when run() enters its loop, best and previous_best are the sentinels
\* (no location) and no particle carries an assessment: nothing of an
\* earlier run() is left.
C3_RunStartsFresh ==
    (pc = "_pso_assess_fitness" /\ idx = 1 /\ sweeps = 0)
        => /\ best = FitnessLoc(<<>>, RunSentinelFitness)
           /\ previous_best.location = <<>>
           /\ \A p \in Swarm : /\ particles[p].fitness_loc.isNone
                               /\ particles[p].personal_fittest_loc.isNone

\* C4, as stated: when run() raises the not-implemented error, every
\* particle's position and velocity are as at instantiation.
C4_NothingChangedSinceInstantiation ==
    (pc = "raised" /\ err = "NotImplementedError")
        => \A p \in Swarm : /\ particles[p].position = initial[p].position
                            /\ particles[p].velocity = initial[p].velocity

\* C4, amended: the not-implemented error is raised in the move sweep, under
\* BOUNCE, at a moving particle with a candidate out of range, and the step
\* that raises it changes no particle: that particle's position and velocity
\* are as they were when its move began.
C4_RaiseChangesNoParticle ==
    [][(pc' = "raised" /\ err' = "NotImplementedError" /\ pc # "raised")
          => /\ pc = "_move_particles"
             /\ conf.boundary_policy = BOUNCE
             /\ ~ Frozen(particles[idx])
             /\ \E i \in Dimensions :
                    ~ InRange(conf.search_dimension[i],
                              TempPosition(particles[idx])[i])
             /\ particles' = particles]_vars

C4_Witness ==
    /\ pc = "raised"
    /\ err = "NotImplementedError"
    /\ \E p \in Swarm : particles[p].velocity # initial[p].velocity
    /\ \E p \in Swarm : particles[p].position # initial[p].position

\* C5: with max_iter = N the controller reports terminate exactly when
\* next_iteration has been called N times; the loop runs on while fewer calls
\* were made, each call follows one complete assess/update/move sweep, every
\* state of the loop has a next step, and run() returns after exactly N
\* sweeps.
C5_ExactlyMaxIterSweeps ==
    /\ InLoop \/ pc = "returned"
          => /\ controller.terminate <=> controller.current_iter = conf.max_iter
             /\ controller.current_iter <= conf.max_iter
    /\ InLoop
          => /\ controller.current_iter < conf.max_iter
             /\ sweeps = controller.current_iter
                           + (IF pc = "next_iteration" THEN 1 ELSE 0)
             /\ ENABLED StepOfRun
    /\ pc = "returned"
          => /\ sweeps = conf.max_iter
             /\ controller.current_iter = conf.max_iter

C5_Witness ==
    pc = "returned" /\ conf.max_iter = MaxIter /\ sweeps = MaxIter

\* C6: once wired, every particle has exactly num_informants informants,
\* pairwise distinct, all of the swarm, none the particle itself, and they
\* stay as wired for the rest of the run.
C6_InformantsWired ==
    \A p \in Swarm :
        LET informants == particles[p].informants
        IN /\ Len(informants) = conf.num_informants
           /\ \A i \in 1..Len(informants) :
                 /\ informants[i] \in Swarm
                 /\ informants[i] # p
                 /\ \A j \in 1..Len(informants) :
                        i # j => informants[i] # informants[j]
           /\ informants = initial[p].informants

C6_Witness ==
    /\ pc = "returned"
    /\ conf.swarm_size = 3
    /\ conf.num_informants = 2
    /\ \E p \in Swarm : particles[p].position # initial[p].position

\* C7: once a particle of the run has been assessed, best is a real
\* evaluation with a location of length D, not the sentinel.
C7_FirstEvaluationSupersedes ==
    (InLoop /\ \E p \in Swarm : ~ particles[p].fitness_loc.isNone)
        => Len(best.location) = Len(conf.search_dimension)

\* C8: with epsilon = 0 every particle's position is its position at
\* instantiation, whatever the boundary policy and the bounds.
C8_EpsilonZeroNeverMoves ==
    conf.epsilon = 0
        => \A p \in Swarm : particles[p].position = initial[p].position

\* C9: throughout the velocity-update sweep, every assessed particle's
\* fitness_loc is the evaluation of its present position (no move of this
\* iteration has happened, and the assessment is this iteration's for every
\* particle that moves), its personal best and the swarm's best are at least
\* as fit, and every particle that is not frozen has been assessed.
C9_UpdateSeesAssessedUnmoved ==
    pc = "_update_particle"
        => \A q \in Swarm :
              LET particle == particles[q]
              IN /\ ~ Frozen(particle) => ~ particle.fitness_loc.isNone
                 /\ ~ particle.fitness_loc.isNone
                       => /\ particle.fitness_loc =
                                FitnessLoc(particle.position,
                                           fitness_fn(conf.fitness_fn,
                                                      particle.position))
                          /\ particle.personal_fittest_loc.fitness
                                >= particle.fitness_loc.fitness
                          /\ best.fitness >= particle.fitness_loc.fitness

C9_Witness ==
    /\ pc = "_update_particle"
    /\ idx = 2
    /\ sweeps = 1
    /\ particles[1].position # initial[1].position
    /\ particles[1].velocity # initial[1].velocity
    /\ ~ Frozen(particles[2])

\* C10: within a run a particle's personal best changes only from None or
\* to an evaluation of strictly greater fitness; an evaluation of equal
\* fitness leaves its fitness and location as they are.
C10_PersonalBestStrict ==
    [][runs' = runs
          => \A p \in Swarm :
                LET old == particles[p].personal_fittest_loc
                    new == particles'[p].personal_fittest_loc
                IN new # old => (old.isNone \/ new.fitness > old.fitness)]_vars

C10_Witness ==
    \E p \in Swarm :
        /\ ~ particles[p].fitness_loc.isNone
        /\ particles[p].fitness_loc.fitness
              = particles[p].personal_fittest_loc.fitness
        /\ particles[p].fitness_loc.location
              # particles[p].personal_fittest_loc.location

\* C11: run() called while the search dimensions are not set raises the
\* configuration error (ValueError) and leaves particles, best and
\* previous_best, the configuration and the controller exactly as they were.
C11_RunBeforeDimensionsRaises ==
    [][(runs' # runs /\ ~ conf.search_dimension_set)
          => /\ pc' = "raised"
             /\ err' = "ValueError"
             /\ particles' = particles
             /\ best' = best
             /\ previous_best' = previous_best
             /\ conf' = conf
             /\ controller' = controller]_vars

C11_Witness ==
    /\ pc = "raised"
    /\ err = "ValueError"
    /\ ~ conf.search_dimension_set
    /\ conf.fitness_fn # "None"
    /\ particles # <<>>
    /\ runs = 2

CarryOver ==
    conf.alpha = 1 /\ conf.beta = 0 /\ conf.gamma = 0 /\ conf.delta = 0

ZeroVelocity(p) ==
    \A i \in 1..Len(particles[p].velocity) : particles[p].velocity[i] = 0

\* C12: with alpha = 1 and beta = gamma = delta = 0 a step of the
\* velocity-update phase leaves the velocity of every particle, the
\* non-frozen ones included, equal in every dimension to what it was, in
\* every iteration.
C12_CarryOverExact ==
    [][(CarryOver /\ pc = "_update_particle")
          => \A p \in Swarm : \A i \in Dimensions :
                particles'[p].velocity[i] = particles[p].velocity[i]]_vars

C12_Witness ==
    /\ CarryOver
    /\ pc = "_move_particles"
    /\ sweeps >= 1
    /\ \E p \in Swarm : ~ ZeroVelocity(p)

\* C13: within a run a particle whose velocity is zero in every dimension is
\* skipped by all three phases: no step changes its position, velocity,
\* fitness_loc or personal best, and its turn in the assessment phase leaves
\* the swarm's best alone; its velocity staying zero, this lasts until run()
\* returns.
C13_FrozenPermanently ==
    [][(InLoop /\ runs' = runs)
          => \A p \in Swarm :
                ZeroVelocity(p)
                   => /\ particles'[p] = particles[p]
                      /\ (pc = "_pso_assess_fitness" /\ idx = p)
                            => (best' = best /\ previous_best' = previous_best)]_vars

C13_Witness ==
    /\ pc = "returned"
    /\ sweeps = 2
    /\ \E p \in Swarm :
          /\ ZeroVelocity(p)
          /\ \E i \in Dimensions : initial[p].velocity[i] # 0

\* C14: within one iteration of the run loop best and previous_best are
\* each assigned at most once, however many particles' assessments improve
\* on the current best in that iteration.
C14_MutatedAtMostOncePerIteration ==
    InLoop => writes <= 1

\* the informants of particle p all hold an evaluation
InformantsAssessed(p) ==
    \A k \in 1..Len(particles[p].informants) :
        ~ particles[particles[p].informants[k]].fitness_loc.isNone

\* C15: the informant best a particle's velocity update uses is the
\* fitness_loc of one of its informants, no informant has a greater fitness,
\* and every informant before it in the informant list has a smaller one:
\* on a tie the first in the order of the scan is kept.
C15_FittestInformantFirstOfGreatest ==
    (pc = "_update_particle" /\ ~ ZeroVelocity(idx) /\ InformantsAssessed(idx))
        => LET informants == particles[idx].informants
               fittest == FittestInformant(particles[idx])
           IN \E j \in 1..Len(informants) :
                 /\ fittest = particles[informants[j]].fitness_loc
                 /\ \A k \in 1..Len(informants) :
                       particles[informants[k]].fitness_loc.fitness <= fittest.fitness
                 /\ \A k \in 1..(j - 1) :
                       particles[informants[k]].fitness_loc.fitness < fittest.fitness

C15_Witness ==
    /\ pc = "_update_particle"
    /\ ~ ZeroVelocity(idx)
    /\ InformantsAssessed(idx)
    /\ LET informants == particles[idx].informants
       IN /\ Len(informants) = 2
          /\ particles[informants[1]].fitness_loc.fitness
                = particles[informants[2]].fitness_loc.fitness
          /\ particles[informants[1]].fitness_loc.location
                # particles[informants[2]].fitness_loc.location
          /\ FittestInformant(particles[idx]) = particles[informants[1]].fitness_loc

\* position[i] + epsilon * velocity[i] of particle p
Candidate(p, i) ==
    particles[p].position[i] + conf.epsilon * particles[p].velocity[i]

\* C16: under REFUSE the move of a non-frozen particle is resolved dimension
\* by dimension: where the candidate position[i] + epsilon * velocity[i] is
\* outside [low_i, high_i] the new position[i] is the old position[i], and
\* in every other dimension it is the candidate.
C16_RefusePerDimension ==
    [][(conf.boundary_policy = REFUSE /\ pc = "_move_particles"
           /\ ~ ZeroVelocity(idx) /\ pc' # "raised")
          => \A i \in Dimensions :
                particles'[idx].position[i]
                   = IF InRange(conf.search_dimension[i], Candidate(idx, i))
                     THEN Candidate(idx, i)
                     ELSE particles[idx].position[i]]_vars

C16_Witness ==
    /\ conf.boundary_policy = REFUSE
    /\ pc = "returned"
    /\ Len(conf.search_dimension) = 2
    /\ \E p \in Swarm : \E i, j \in Dimensions :
          /\ initial[p].velocity[i] # 0
          /\ particles[p].position[i] = initial[p].position[i]
          /\ initial[p].velocity[j] # 0
          /\ particles[p].position[j]
                = initial[p].position[j] + conf.epsilon * initial[p].velocity[j]

\* C17: a step of the velocity-update phase leaves every particle's
\* position as it was, and a step of the move phase leaves every particle's
\* velocity as it was, under every boundary policy, a RANDOMREINIT move that
\* draws a fresh position included.
C17_PhasesDisjoint ==
    [][/\ pc = "_update_particle"
            => \A p \in Swarm : particles'[p].position = particles[p].position
       /\ pc = "_move_particles"
            => \A p \in Swarm : particles'[p].velocity = particles[p].velocity]_vars

C17_Witness ==
    /\ conf.boundary_policy = RANDOMREINIT
    /\ conf.epsilon = 1
    /\ pc = "next_iteration"
    /\ sweeps = 1
    /\ \E p \in Swarm :
          /\ particles[p].velocity # initial[p].velocity
          /\ ~ ZeroVelocity(p)
          /\ particles[p].position[1]
                \notin {initial[p].position[1],
                        initial[p].position[1] + particles[p].velocity[1]}

\* C18: whatever termination_policy, time_delta and min_fitness_delta are
\* configured, CONVERGENCE and DURATION included, run() raises no
\* configuration error for them and its loop is driven by the iteration
\* count alone: each iteration is one count, the loop goes on exactly while
\* the count is below max_iter
\* and run() returns after max_iter sweeps. The loop test is all run() reads
\* of the controller, so the sweeps and the best are those of any other
\* termination configuration with the same max_iter and choices.
C18_OnlyIterationsDrivesTermination ==
    /\ (pc = "raised" /\ err = "ValueError") => particles = <<>>
    /\ (InLoop \/ pc = "returned")
          => /\ controller.current_iter
                   = IF pc = "next_iteration" THEN sweeps - 1 ELSE sweeps
             /\ controller.terminate <=> (pc = "returned")
             /\ (pc = "returned") <=> (controller.current_iter >= conf.max_iter)
             /\ pc = "returned" => sweeps = conf.max_iter

C18_Witness ==
    /\ pc = "returned"
    /\ conf.termination_policy = {CONVERGENCE, DURATION}
    /\ conf.time_delta = 1
    /\ conf.min_fitness_delta = 2
    /\ best.fitness - previous_best.fitness < conf.min_fitness_delta
    /\ sweeps = 2

\* C19: whenever the velocity-update phase reaches a non-frozen particle,
\* each of its informants holds an evaluation, and its personal best, the
\* informant best of the scan and the swarm's best each carry a location
\* of length D.
C19_UpdateReadsRealBests ==
    (pc = "_update_particle" /\ ~ ZeroVelocity(idx))
        => /\ InformantsAssessed(idx)
           /\ ~ particles[idx].personal_fittest_loc.isNone
           /\ Len(particles[idx].personal_fittest_loc.location)
                 = Len(conf.search_dimension)
           /\ Len(FittestInformant(particles[idx]).location)
                 = Len(conf.search_dimension)
           /\ Len(best.location) = Len(conf.search_dimension)

\* C20: when run() returns and some assessment of the run exceeded the
\* sentinel fitness, best.fitness is the greatest fitness any assessment of
\* the run produced and best.location is the position of the first
\* assessment that produced it, wherever the particles have moved since.
C20_ReturnedBestIsFirstMaximum ==
    (pc = "returned" /\ ~ record.isNone /\ record.fitness > RunSentinelFitness)
        => /\ best.fitness = record.fitness
           /\ best.location = record.location

C20_Witness ==
    /\ pc = "returned"
    /\ ~ record.isNone
    /\ record.fitness > RunSentinelFitness
    /\ best = record
    /\ \E p, q \in Swarm :
          /\ ~ particles[p].fitness_loc.isNone
          /\ particles[p].fitness_loc.fitness = best.fitness
          /\ particles[p].fitness_loc.location # best.location
          /\ particles[q].position # best.location

====
